---- MODULE Spec2Model ----
(***************************************************************************)
(* Dependency graph construction and reachability engine of MONOMAX        *)
(* (frontend/src/utils/graphBuilder.js).                                   *)
(*                                                                         *)
(* JavaScript strings are sequences of one-character strings, so that      *)
(* split, join, includes, startsWith, endsWith and template concatenation  *)
(* are computed as the code computes them.  `undefined' is the one-element *)
(* sequence Undefined, which is no string of characters.                   *)
(***************************************************************************)
EXTENDS Integers, Sequences, FiniteSets, TLC

(***************************************************************************)
(* Bounds                                                                  *)
(***************************************************************************)
\* greatest number of records in one input of buildDependencyGraph
MaxRecords == 2
\* greatest number of edges of the graphs the traversals are run on
MaxEdges == 4
\* cap on the depth of the recursion of dfs
MaxDepth == 5

(***************************************************************************)
(* JavaScript values                                                       *)
(***************************************************************************)
Undefined == <<"undefined">>
Null == <<"n", "u", "l", "l">>

Range(s) == {s[i] : i \in 1..Len(s)}

Digit(d) == CASE d = 0 -> "0" [] d = 1 -> "1" [] d = 2 -> "2" [] d = 3 -> "3"
              [] d = 4 -> "4" [] d = 5 -> "5" [] d = 6 -> "6" [] d = 7 -> "7"
              [] d = 8 -> "8" [] d = 9 -> "9"

\* String(n) for a natural number n, as a template literal formats it
RECURSIVE ToStr(_)
ToStr(n) == IF n < 10 THEN <<Digit(n)>> ELSE ToStr(n \div 10) \o <<Digit(n % 10)>>

\* String.prototype.startsWith
StartsWith(s, p) == Len(p) <= Len(s) /\ SubSeq(s, 1, Len(p)) = p

\* String.prototype.endsWith
EndsWith(s, p) == Len(p) <= Len(s) /\ SubSeq(s, Len(s) - Len(p) + 1, Len(s)) = p

\* String.prototype.includes
Includes(s, p) == \E i \in 0..(Len(s) - Len(p)) : SubSeq(s, i + 1, i + Len(p)) = p

\* String.prototype.split(c) for a one-character separator c
RECURSIVE SplitFrom(_, _, _)
SplitFrom(s, c, cur) ==
  IF s = << >> THEN <<cur>>
  ELSE IF Head(s) = c THEN <<cur>> \o SplitFrom(Tail(s), c, << >>)
  ELSE SplitFrom(Tail(s), c, Append(cur, Head(s)))

Split(s, c) == SplitFrom(s, c, << >>)

\* Array.prototype.join(c)
RECURSIVE Join(_, _)
Join(parts, c) ==
  IF parts = << >> THEN << >>
  ELSE IF Len(parts) = 1 THEN parts[1]
  ELSE parts[1] \o <<c>> \o Join(Tail(parts), c)

\* Array.prototype.slice(0, -1)
DropLast(a) == IF a = << >> THEN << >> ELSE SubSeq(a, 1, Len(a) - 1)

\* Array.prototype.includes
ArrayIncludes(a, x) == \E i \in 1..Len(a) : a[i] = x

(***************************************************************************)
(* Map: insertion-ordered, set() of a present key keeps its position       *)
(***************************************************************************)
MapHas(m, k) == \E i \in 1..Len(m) : m[i].key = k

MapGet(m, k) ==
  IF MapHas(m, k) THEN m[CHOOSE i \in 1..Len(m) : m[i].key = k].val ELSE Undefined

\* a key that is present keeps its value
MapSetKeepFirst(m, k, v) ==
  IF MapHas(m, k) THEN m ELSE Append(m, [key |-> k, val |-> v])

MapSet(m, k, v) ==
  IF MapHas(m, k)
  THEN [i \in 1..Len(m) |-> IF m[i].key = k THEN [key |-> k, val |-> v] ELSE m[i]]
  ELSE Append(m, [key |-> k, val |-> v])

MapKeys(m) == [i \in 1..Len(m) |-> m[i].key]

(***************************************************************************)
(* graphlib Graph({directed: true}): node labels by id, one edge label per *)
(* ordered pair (v, w)                                                     *)
(***************************************************************************)
EmptyGraph == [nodes |-> << >>, edges |-> << >>]

NodeIds(g) == {g.nodes[i].key : i \in 1..Len(g.nodes)}

EdgePairs(g) == {g.edges[i].key : i \in 1..Len(g.edges)}

NodeLabel(g, v) == MapGet(g.nodes, v)

EdgeLabel(g, v, w) == MapGet(g.edges, <<v, w>>)

\* Graph.setNode(v, label)
SetNode(g, v, label) == [g EXCEPT !.nodes = MapSet(g.nodes, v, label)]

NoLabel == [type |-> "undefined"]

\* Graph.setEdge(v, w, label): creates absent endpoints, replaces the label
EnsureNode(g, v) == IF MapHas(g.nodes, v) THEN g ELSE SetNode(g, v, NoLabel)

\* an edge that exists keeps the label it has
SetEdgeKeepFirst(g, v, w, label) ==
  IF MapHas(g.edges, <<v, w>>) THEN g
  ELSE [EnsureNode(EnsureNode(g, v), w) EXCEPT !.edges = MapSet(g.edges, <<v, w>>, label)]

SetEdge(g, v, w, label) ==
  [EnsureNode(EnsureNode(g, v), w) EXCEPT !.edges = MapSet(g.edges, <<v, w>>, label)]

HasNode(g, v) == MapHas(g.nodes, v)

\* Graph.successors(v) / Graph.predecessors(v): undefined for an absent node
Successors(g, v) ==
  [defined |-> HasNode(g, v), ids |-> {w \in NodeIds(g) : <<v, w>> \in EdgePairs(g)}]

Predecessors(g, v) ==
  [defined |-> HasNode(g, v), ids |-> {u \in NodeIds(g) : <<u, v>> \in EdgePairs(g)}]

(***************************************************************************)
(* Strings of the inputs                                                   *)
(***************************************************************************)
FilePrefix == <<"f", "i", "l", "e", ":">>
FuncPrefix == <<"f", "u", "n", "c", ":">>
Colon == <<":">>

PathA == <<"a", ".", "j", "s">>
PathB == <<"b", ".", "j", "s">>
PathDIndex == <<"d", "/", "i", "n", "d", "e", "x", ".", "j", "s">>
Paths == {PathA, PathB, PathDIndex}

Foo == <<"f", "o", "o">>
Bar == <<"b", "a", "r">>
Baz == <<"b", "a", "z">>

DotSlashB == <<".", "/", "b">>
DotSlashD == <<".", "/", "d">>
DotDotSlashA == <<".", ".", "/", "a">>
DotSlashMissing == <<".", "/", "m", "i", "s", "s", "i", "n", "g">>
BareA == <<"a">>

Fn(n, l) == [name |-> n, line |-> l]
Imp(s, t) == [source |-> s, type |-> t]
Call(n, l) == [name |-> n, line |-> l]

\* a record as the parser returns it; `missing' names the fields that are
\* undefined
Rec(f, fs, is, cs) ==
  [filename |-> f, functions |-> fs, imports |-> is, functionCalls |-> cs,
   missing |-> {}]

Lacking(r, field) == [r EXCEPT !.missing = {field}]

FuncLists ==
  { << >>,
    <<Fn(Foo, 3)>>,
    <<Fn(Foo, 1), Fn(Bar, 10)>>,
    <<Fn(Bar, 10), Fn(Foo, 0)>> }

ImportLists ==
  { << >>,
    <<Imp(DotSlashB, "import"), Imp(BareA, "require"), Imp(DotSlashMissing, "import"),
      Imp(DotDotSlashA, "import"), Imp(DotSlashD, "require")>> }

CallLists ==
  { << >>,
    <<Call(Bar, 4), Call(Foo, 15), Call(Baz, 2)>> }

WellFormedRecords ==
  {Rec(f, fs, is, cs) : f \in Paths, fs \in FuncLists, is \in ImportLists, cs \in CallLists}

\* records that lack an expected field
MalformedRecords ==
  UNION { { Lacking(Rec(f, << >>, <<Imp(DotSlashB, "import")>>, << >>), "functions"),
            Lacking(Rec(f, <<Fn(Foo, 3)>>, << >>, << >>), "imports"),
            Lacking(Rec(f, <<Fn(Foo, 3)>>, <<Imp(DotSlashB, "import")>>, << >>), "functionCalls"),
            Rec(f, <<Fn(Foo, 3)>>, <<Imp(Undefined, "import")>>, << >>) } : f \in Paths }

RecordPool == WellFormedRecords \cup MalformedRecords

(***************************************************************************)
(* resolveImportPath(importPath, currentFile, allFiles)                    *)
(***************************************************************************)
IsRelative(importPath) ==
  StartsWith(importPath, <<".", "/">>) \/ StartsWith(importPath, <<".", ".", "/">>)

\* the loop over importParts: '..' pops, '.' is skipped, the rest is pushed
RECURSIVE ApplyParts(_, _)
ApplyParts(resolvedParts, importParts) ==
  IF importParts = << >> THEN resolvedParts
  ELSE LET part == Head(importParts)
       IN  IF part = <<".", ".">>
           THEN ApplyParts(DropLast(resolvedParts), Tail(importParts))
           ELSE IF part # <<".">>
           THEN ApplyParts(Append(resolvedParts, part), Tail(importParts))
           ELSE ApplyParts(resolvedParts, Tail(importParts))

NormalizeRelative(importPath, currentFile) ==
  Join(ApplyParts(DropLast(Split(currentFile, "/")), Split(importPath, "/")), "/")

\* no suffix is tried but the empty one
ExtensionsOnlyEmpty == << << >> >>

Extensions ==
  << << >>,
     <<".", "j", "s">>,
     <<".", "j", "s", "x">>,
     <<".", "t", "s">>,
     <<".", "t", "s", "x">>,
     <<".", "j", "s", "o", "n">>,
     <<"/", "i", "n", "d", "e", "x", ".", "j", "s">>,
     <<"/", "i", "n", "d", "e", "x", ".", "t", "s">> >>

\* the loops exchanged: the first path of allFiles that is a candidate
ResolveRelativeByPathOrder(importPath, currentFile, allFiles) ==
  LET resolved == NormalizeRelative(importPath, currentFile)
      hits == {i \in 1..Len(allFiles) :
                 \E x \in 1..Len(Extensions) : allFiles[i] = resolved \o Extensions[x]}
  IN  IF hits # {}
      THEN allFiles[CHOOSE i \in hits : \A j \in hits : i <= j]
      ELSE resolved \o <<".", "j", "s">>

ResolveRelative(importPath, currentFile, allFiles) ==
  LET resolved == NormalizeRelative(importPath, currentFile)
      hits == {i \in 1..Len(Extensions) : ArrayIncludes(allFiles, resolved \o Extensions[i])}
  IN  IF hits # {}
      THEN resolved \o Extensions[CHOOSE i \in hits : \A j \in hits : i <= j]
      ELSE resolved \o <<".", "j", "s">>

\* the predicate of allFiles.filter(...)
BareMatch(file, importPath) ==
  \/ Includes(file, importPath)
  \/ EndsWith(file, <<"/">> \o importPath \o <<".", "j", "s">>)
  \/ EndsWith(file, <<"/">> \o importPath \o <<".", "t", "s">>)
  \/ EndsWith(file, <<"/">> \o importPath \o <<"/", "i", "n", "d", "e", "x", ".", "j", "s">>)
  \/ EndsWith(file, <<"/">> \o importPath \o <<"/", "i", "n", "d", "e", "x", ".", "t", "s">>)

\* possiblePaths[possiblePaths.length - 1] in the place of possiblePaths[0]
ResolveBareLast(importPath, allFiles) ==
  LET hits == {i \in 1..Len(allFiles) : BareMatch(allFiles[i], importPath)}
  IN  IF hits # {}
      THEN allFiles[CHOOSE i \in hits : \A j \in hits : i >= j]
      ELSE importPath

ResolveBare(importPath, allFiles) ==
  LET hits == {i \in 1..Len(allFiles) : BareMatch(allFiles[i], importPath)}
  IN  IF hits # {}
      THEN allFiles[CHOOSE i \in hits : \A j \in hits : i <= j]
      ELSE importPath

\* the importing file left out of the paths searched
resolveImportPathNotSelf(importPath, currentFile, allFiles) ==
  LET others == SelectSeq(allFiles, LAMBDA f : f # currentFile)
  IN  IF IsRelative(importPath)
      THEN ResolveRelative(importPath, currentFile, others)
      ELSE ResolveBare(importPath, others)

resolveImportPath(importPath, currentFile, allFiles) ==
  IF IsRelative(importPath)
  THEN ResolveRelative(importPath, currentFile, allFiles)
  ELSE ResolveBare(importPath, allFiles)

(***************************************************************************)
(* findContainingFunction(functions, line)                                 *)
(***************************************************************************)
\* func.line || 0
LineOrZero(func) == func.line

\* insertion of x into a list sorted by line, after the elements that do
\* not compare greater (Array.prototype.sort is stable)
RECURSIVE InsertByLine(_, _)
InsertByLine(sorted, x) ==
  IF sorted = << >> THEN <<x>>
  ELSE IF LineOrZero(Head(sorted)) <= LineOrZero(x)
       THEN <<Head(sorted)>> \o InsertByLine(Tail(sorted), x)
       ELSE <<x>> \o sorted

RECURSIVE SortLoop(_, _)
SortLoop(done, rest) ==
  IF rest = << >> THEN done ELSE SortLoop(InsertByLine(done, Head(rest)), Tail(rest))

\* the array left in the order of the record
SortByLineSkipped(functions) == functions

\* functions.sort((a, b) => (a.line || 0) - (b.line || 0))
SortByLine(functions) == SortLoop(<< >>, functions)

\* the test of the loop body: line >= funcStart && line < funcEnd
Brackets(sortedFunctions, i, line) ==
  /\ line >= LineOrZero(sortedFunctions[i])
  /\ (i < Len(sortedFunctions) => line < sortedFunctions[i + 1].line)

\* the result: found = FALSE is null; `functions' is the caller's array
\* after the call (it is sorted in place once the first guard is passed)
findContainingFunction(functions, line) ==
  IF line = 0 \/ Len(functions) = 0
  THEN [found |-> FALSE, func |-> Fn(Undefined, 0), functions |-> functions]
  ELSE LET sortedFunctions == SortByLine(functions)
           hits == {i \in 1..Len(sortedFunctions) : Brackets(sortedFunctions, i, line)}
       IN  [found |-> TRUE,
            func |-> IF hits # {}
                     THEN sortedFunctions[CHOOSE i \in hits : \A j \in hits : i <= j]
                     ELSE sortedFunctions[Len(sortedFunctions)],
            functions |-> sortedFunctions]

VARIABLES
  input,         \* parsedFiles as it was when buildDependencyGraph was called
  records,       \* parsedFiles, the argument of buildDependencyGraph
  graph,         \* the graphlib Graph under construction, then returned
  fileMap,       \* Map filename -> file node id
  functionMap,   \* Map `filename:name' and `name' -> function node id
  pc,            \* position of the build or of the query
  idx,           \* index of the next record of the running pass
  startNodeId,   \* argument of findDownstreamNodes / findUpstreamNodes
  direction,     \* "down" for findDownstreamNodes, "up" for findUpstreamNodes
  visited,       \* the Set visited
  reached,       \* the Set downstream / upstream, in insertion order
  stack,         \* the active calls of dfs: node and successors still to do
  expanded,      \* number of times dfs passed the visited test, per node
  prior,         \* the previous completed query and its result
  specifier,     \* importPath, the first argument of resolveImportPath
  sourcePath,    \* currentFile, its second argument
  allPaths,      \* allFiles, its third argument
  returnValue,   \* the value resolveImportPath returned
  builds,        \* number of calls of buildDependencyGraph so far
  priorInput,    \* the argument of the call before the current one
  files,         \* the prop files of RippleGraph
  layoutDirection,   \* state layoutDirection
  runs,          \* the buildGraph runs suspended at `await parseFiles'
  held,          \* state graph: null or the graph of setGraph
  nodes,         \* state nodes: id and whether the node is dimmed
  edges,         \* state edges: source, target and whether it is dimmed
  selectedNode,  \* state selectedNode
  highlightedNodes,  \* state highlightedNodes
  isLoading,     \* state isLoading
  error,         \* state error
  progress       \* state progress

vars == <<input, records, graph, fileMap, functionMap, pc, idx, startNodeId, direction,
          visited, reached, stack, expanded, prior,
          specifier, sourcePath, allPaths, returnValue, builds, priorInput,
          files, layoutDirection, runs, held, nodes, edges, selectedNode,
          highlightedNodes, isLoading, error, progress>>

buildVars == <<input, records, fileMap, functionMap, idx>>
queryVars == <<startNodeId, direction, visited, reached, stack, expanded, prior>>
resolveVars == <<specifier, sourcePath, allPaths, returnValue>>
callVars == <<builds, priorInput>>
rippleVars == <<files, layoutDirection, runs, held, nodes, edges, selectedNode,
                highlightedNodes, isLoading, error, progress>>

(***************************************************************************)
(* buildDependencyGraph, first pass: file nodes and function nodes         *)
(***************************************************************************)
FileId(filename) == FilePrefix \o filename

\* file.filename.split('/').pop() || file.filename
FileLabel(filename) ==
  LET last == Split(filename, "/")[Len(Split(filename, "/"))]
  IN  IF last # << >> THEN last ELSE filename

\* the id without the file name
FunctionIdNoFile(filename, func, index) ==
  FuncPrefix \o func.name \o Colon \o ToStr(IF func.line # 0 THEN func.line ELSE index)

\* `func:${file.filename}:${func.name}:${func.line || index}`
FunctionId(filename, func, index) ==
  FuncPrefix \o filename \o Colon \o func.name \o Colon
    \o ToStr(IF func.line # 0 THEN func.line ELSE index)

FileNodeLabel(file) ==
  [id |-> FileId(file.filename), type |-> "file", label |-> FileLabel(file.filename),
   filename |-> file.filename, functions |-> Len(file.functions),
   imports |-> Len(file.imports), size |-> Len(file.functions) + Len(file.imports)]

FunctionNodeLabel(file, func, index) ==
  [id |-> FunctionId(file.filename, func, index), type |-> "function",
   label |-> func.name, filename |-> file.filename, functionName |-> func.name,
   line |-> IF func.line # 0 THEN func.line ELSE index + 1,
   parentFile |-> FileId(file.filename)]

ContainsLabel == [type |-> "contains", label |-> "contains"]

\* the body of file.functions.forEach((func, index) => ...), index 0-based
AddFunction(st, file, index) ==
  LET func == file.functions[index + 1]
      functionId == FunctionId(file.filename, func, index)
      g1 == SetNode(st.graph, functionId, FunctionNodeLabel(file, func, index))
      m1 == MapSet(st.functionMap, file.filename \o Colon \o func.name, functionId)
      m2 == MapSet(m1, func.name, functionId)
  IN  [st EXCEPT !.graph = SetEdge(g1, FileId(file.filename), functionId, ContainsLabel),
                 !.functionMap = m2]

RECURSIVE AddFunctions(_, _, _)
AddFunctions(st, file, index) ==
  IF index >= Len(file.functions) THEN st
  ELSE AddFunctions(AddFunction(st, file, index), file, index + 1)

\* reading file.functions.length / file.imports.length of an undefined field
NodePassThrows(file) == "functions" \in file.missing \/ "imports" \in file.missing

NodePassFile(st, file) ==
  LET g1 == SetNode(st.graph, FileId(file.filename), FileNodeLabel(file))
      fm == MapSet(st.fileMap, file.filename, FileId(file.filename))
  IN  AddFunctions([st EXCEPT !.graph = g1, !.fileMap = fm], file, 0)

(***************************************************************************)
(* second pass: import edges                                               *)
(***************************************************************************)
ImportsLabel(imp) ==
  [type |-> "imports", label |-> "imports", source |-> imp.source, importType |-> imp.type]

\* the test without `targetFileId &&'
ImportEdgeWantedNoTargetTest(sourceFileId, targetFileId) == sourceFileId # targetFileId

\* the test without sourceFileId !== targetFileId
ImportEdgeWantedNoSelfTest(sourceFileId, targetFileId) == targetFileId # Undefined

\* if (targetFileId && sourceFileId !== targetFileId)
ImportEdgeWanted(sourceFileId, targetFileId) ==
  targetFileId # Undefined /\ sourceFileId # targetFileId

\* the target taken as `file:${resolvedPath}' without the lookup in fileMap
AddImportToResolvedPath(st, file, imp) ==
  LET sourceFileId == MapGet(st.fileMap, file.filename)
      targetFileId == FileId(resolveImportPath(imp.source, file.filename,
                                               MapKeys(st.fileMap)))
  IN  IF ImportEdgeWanted(sourceFileId, targetFileId)
      THEN [st EXCEPT !.graph = SetEdge(st.graph, sourceFileId, targetFileId, ImportsLabel(imp))]
      ELSE st

\* an import that resolves only to a file registered before the importer
AddImportBackwardOnly(st, file, imp) ==
  LET sourceFileId == MapGet(st.fileMap, file.filename)
      before == SubSeq(st.fileMap, 1,
                       (CHOOSE i \in 1..Len(st.fileMap) : st.fileMap[i].key = file.filename) - 1)
      targetFileId == MapGet(before, resolveImportPath(imp.source, file.filename, MapKeys(before)))
  IN  IF ImportEdgeWanted(sourceFileId, targetFileId)
      THEN [st EXCEPT !.graph = SetEdge(st.graph, sourceFileId, targetFileId, ImportsLabel(imp))]
      ELSE st

AddImport(st, file, imp) ==
  LET sourceFileId == MapGet(st.fileMap, file.filename)
      resolvedPath == resolveImportPath(imp.source, file.filename, MapKeys(st.fileMap))
      targetFileId == MapGet(st.fileMap, resolvedPath)
  IN  IF ImportEdgeWanted(sourceFileId, targetFileId)
      THEN [st EXCEPT !.graph = SetEdge(st.graph, sourceFileId, targetFileId, ImportsLabel(imp))]
      ELSE st

RECURSIVE AddImports(_, _, _)
AddImports(st, file, i) ==
  IF i > Len(file.imports) THEN st
  ELSE AddImports(AddImport(st, file, file.imports[i]), file, i + 1)

\* forEach of an undefined list, or importPath.startsWith of an undefined
\* specifier
ImportPassThrows(st, file) ==
  /\ MapGet(st.fileMap, file.filename) # Undefined
  /\ \/ "imports" \in file.missing
     \/ \E i \in 1..Len(file.imports) : file.imports[i].source = Undefined

ImportPassFile(st, file) ==
  IF MapGet(st.fileMap, file.filename) = Undefined THEN st
  ELSE AddImports(st, file, 1)

(***************************************************************************)
(* third pass: call edges                                                  *)
(***************************************************************************)
\* the label with a misspelt type
CallsLabelMisspelt(call) == [type |-> "call", label |-> "calls", line |-> call.line]

CallsLabel(call) == [type |-> "calls", label |-> "calls", line |-> call.line]

\* no lookup in the other files
GlobalLookupNone(fnMap, name) == Undefined

\* the loop over functionMap.entries(): first key with a ':' that ends in
\* `:${call.name}`
GlobalLookup(fnMap, name) ==
  LET hits == {i \in 1..Len(fnMap) :
                 /\ Includes(fnMap[i].key, Colon)
                 /\ EndsWith(fnMap[i].key, Colon \o name)}
  IN  IF hits # {}
      THEN fnMap[CHOOSE i \in hits : \A j \in hits : i <= j].val
      ELSE Undefined

\* the global loop alone, without the lookup of `${file.filename}:${call.name}`
ResolveCalleeGlobalOnly(fnMap, filename, name) == GlobalLookup(fnMap, name)

ResolveCallee(fnMap, filename, name) ==
  LET local == MapGet(fnMap, filename \o Colon \o name)
  IN  IF local # Undefined THEN local ELSE GlobalLookup(fnMap, name)

\* if (callingFunctionId && callingFunctionId !== targetFunctionId)
CallEdgeWanted(callingFunctionId, targetFunctionId) ==
  callingFunctionId # Undefined /\ callingFunctionId # targetFunctionId

\* the body of file.functionCalls.forEach(call => ...); st.functions is
\* file.functions, which findContainingFunction sorts in place
AddCall(st, filename, call) ==
  LET targetFunctionId == ResolveCallee(st.functionMap, filename, call.name)
  IN  IF targetFunctionId = Undefined THEN st
      ELSE LET res == findContainingFunction(st.functions, call.line)
               callingFunctionId ==
                 MapGet(st.functionMap, filename \o Colon \o res.func.name)
           IN  IF res.found /\ CallEdgeWanted(callingFunctionId, targetFunctionId)
               THEN [st EXCEPT !.graph = SetEdge(st.graph, callingFunctionId,
                                                  targetFunctionId, CallsLabel(call)),
                               !.functions = res.functions]
               ELSE [st EXCEPT !.functions = res.functions]

RECURSIVE AddCalls(_, _, _, _)
AddCalls(st, filename, calls, i) ==
  IF i > Len(calls) THEN st
  ELSE AddCalls(AddCall(st, filename, calls[i]), filename, calls, i + 1)

\* if (!file.functionCalls) return;
CallPassFile(st, file) ==
  IF "functionCalls" \in file.missing THEN st
  ELSE AddCalls(st, file.filename, file.functionCalls, 1)

(***************************************************************************)
(* The build as a state machine: one step per record and pass              *)
(***************************************************************************)
DistinctFilenames(rs) ==
  \A i, j \in 1..Len(rs) : i # j => rs[i].filename # rs[j].filename

RecordInputs ==
  {rs \in UNION {[1..n -> RecordPool] : n \in 0..MaxRecords} : DistinctFilenames(rs)}

NoQuery == [direction |-> "none", startNodeId |-> Undefined, result |-> {}]

\* useState(null)
NoGraph == [loaded |-> FALSE, graph |-> EmptyGraph]

\* RippleGraph is not mounted
RippleIdle ==
  /\ files = << >>
  /\ layoutDirection = "TB"
  /\ runs = << >>
  /\ held = NoGraph
  /\ nodes = {}
  /\ edges = {}
  /\ selectedNode = Null
  /\ highlightedNodes = {}
  /\ isLoading = FALSE
  /\ error = Null
  /\ progress = 0

\* the first call of buildDependencyGraph
FirstBuild ==
  /\ builds = 1
  /\ priorInput = << >>

\* resolveImportPath is not being called on its own
ResolveIdle ==
  /\ specifier = Undefined
  /\ sourcePath = Undefined
  /\ allPaths = << >>
  /\ returnValue = Undefined

QueryIdle ==
  /\ startNodeId = Undefined
  /\ direction = "none"
  /\ visited = {}
  /\ reached = << >>
  /\ stack = << >>
  /\ expanded = << >>
  /\ prior = NoQuery

InitBuild ==
  /\ records \in RecordInputs
  /\ input = records
  /\ graph = EmptyGraph
  /\ fileMap = << >>
  /\ functionMap = << >>
  /\ pc = "nodes"
  /\ idx = 1
  /\ QueryIdle
  /\ ResolveIdle
  /\ FirstBuild
  /\ RippleIdle

BuildState == [graph |-> graph, fileMap |-> fileMap, functionMap |-> functionMap]

NodePassThrow ==
  /\ pc = "nodes" /\ idx <= Len(records)
  /\ NodePassThrows(records[idx])
  /\ pc' = "threw"
  /\ UNCHANGED <<graph, buildVars, queryVars, resolveVars, callVars, rippleVars>>

NodePassStep ==
  /\ pc = "nodes" /\ idx <= Len(records)
  /\ ~NodePassThrows(records[idx])
  /\ LET st == NodePassFile(BuildState, records[idx])
     IN  /\ graph' = st.graph
         /\ fileMap' = st.fileMap
         /\ functionMap' = st.functionMap
  /\ idx' = idx + 1
  /\ UNCHANGED <<input, records, pc, queryVars, resolveVars, callVars, rippleVars>>

NodePassEnd ==
  /\ pc = "nodes" /\ idx > Len(records)
  /\ pc' = "imports" /\ idx' = 1
  /\ UNCHANGED <<input, records, graph, fileMap, functionMap, queryVars, resolveVars, callVars, rippleVars>>

ImportPassThrow ==
  /\ pc = "imports" /\ idx <= Len(records)
  /\ ImportPassThrows(BuildState, records[idx])
  /\ pc' = "threw"
  /\ UNCHANGED <<graph, buildVars, queryVars, resolveVars, callVars, rippleVars>>

ImportPassStep ==
  /\ pc = "imports" /\ idx <= Len(records)
  /\ ~ImportPassThrows(BuildState, records[idx])
  /\ graph' = ImportPassFile(BuildState, records[idx]).graph
  /\ idx' = idx + 1
  /\ UNCHANGED <<input, records, fileMap, functionMap, pc, queryVars, resolveVars, callVars, rippleVars>>

ImportPassEnd ==
  /\ pc = "imports" /\ idx > Len(records)
  /\ pc' = "calls" /\ idx' = 1
  /\ UNCHANGED <<input, records, graph, fileMap, functionMap, queryVars, resolveVars, callVars, rippleVars>>

CallPassStep ==
  /\ pc = "calls" /\ idx <= Len(records)
  /\ LET st == CallPassFile([graph |-> graph, functionMap |-> functionMap,
                             functions |-> records[idx].functions], records[idx])
     IN  /\ graph' = st.graph
         /\ records' = [records EXCEPT ![idx].functions = st.functions]
  /\ idx' = idx + 1
  /\ UNCHANGED <<input, fileMap, functionMap, pc, queryVars, resolveVars, callVars, rippleVars>>

\* return graph
CallPassEnd ==
  /\ pc = "calls" /\ idx > Len(records)
  /\ pc' = "done"
  /\ UNCHANGED <<graph, buildVars, queryVars, resolveVars, callVars, rippleVars>>

NextBuild ==
  \/ NodePassThrow
  \/ NodePassStep
  \/ NodePassEnd
  \/ ImportPassThrow
  \/ ImportPassStep
  \/ ImportPassEnd
  \/ CallPassStep
  \/ CallPassEnd

SpecBuild == InitBuild /\ [][NextBuild]_vars

(***************************************************************************)
(* getGraphStats(graph)                                                    *)
(***************************************************************************)
CountNodes(g, t) == Cardinality({i \in 1..Len(g.nodes) : g.nodes[i].val.type = t})

CountEdges(g, t) == Cardinality({i \in 1..Len(g.edges) : g.edges[i].val.type = t})

getGraphStats(g) ==
  [totalNodes |-> Len(g.nodes),
   totalEdges |-> Len(g.edges),
   fileNodes |-> CountNodes(g, "file"),
   functionNodes |-> CountNodes(g, "function"),
   importEdges |-> CountEdges(g, "imports"),
   callEdges |-> CountEdges(g, "calls"),
   containsEdges |-> CountEdges(g, "contains")]

(***************************************************************************)
(* Properties of the build                                                 *)
(***************************************************************************)
FunctionNodes(g) == {v \in NodeIds(g) : NodeLabel(g, v).type = "function"}

\* sources of the edges of relation t that enter v
Incoming(g, v, t) ==
  {u \in NodeIds(g) : <<u, v>> \in EdgePairs(g) /\ EdgeLabel(g, u, v).type = t}

\* the file ids of the records of the input that declare function node v
DeclaringFiles(v) ==
  {FileId(input[i].filename) : i \in
     {j \in 1..Len(input) : \E k \in 1..Len(input[j].functions) :
        FunctionId(input[j].filename, input[j].functions[k], k - 1) = v}}

\* C1: every function node of the returned graph has exactly one incoming
\* contains edge, and its source is the file node of the record that
\* declared the function
C1_OneContainsEdge ==
  pc = "done" =>
    \A v \in FunctionNodes(graph) :
      /\ Cardinality(Incoming(graph, v, "contains")) = 1
      /\ Incoming(graph, v, "contains") = DeclaringFiles(v)

\* a returned graph in which a function node is also entered by a calls edge
C1_Witness ==
  /\ pc = "done"
  /\ Len(input) = 2
  /\ \E v \in FunctionNodes(graph) :
       Incoming(graph, v, "contains") # {} /\ Incoming(graph, v, "calls") # {}

\* C2: no edge of the graph has its source as its target, for any relation
C2_NoSelfLoop == \A e \in EdgePairs(graph) : e[1] # e[2]

\* record i has an import that resolves to the importing file itself
SelfImport(i) ==
  \E k \in 1..Len(input[i].imports) :
    MapGet(fileMap, resolveImportPath(input[i].imports[k].source, input[i].filename,
                                      MapKeys(fileMap))) = FileId(input[i].filename)

\* record i has a call site whose target is the function that contains it
SelfCall(i) ==
  \E k \in 1..Len(input[i].functionCalls) :
    LET call == input[i].functionCalls[k]
        res == findContainingFunction(input[i].functions, call.line)
    IN  /\ res.found
        /\ ResolveCallee(functionMap, input[i].filename, call.name) # Undefined
        /\ ResolveCallee(functionMap, input[i].filename, call.name)
             = MapGet(functionMap, input[i].filename \o Colon \o res.func.name)

\* a returned graph built from a self-import and a self-call
C2_Witness ==
  /\ pc = "done"
  /\ \E i \in 1..Len(input) : SelfImport(i)
  /\ \E i \in 1..Len(input) : SelfCall(i)
  /\ EdgePairs(graph) # {}

\* C9: the node counts by kind add up to the node count and the edge counts
\* by relation add up to the edge count of the returned graph
C9_StatsAddUp ==
  pc = "done" =>
    LET st == getGraphStats(graph)
    IN  /\ st.fileNodes + st.functionNodes = st.totalNodes
        /\ st.importEdges + st.callEdges + st.containsEdges = st.totalEdges

\* a returned graph with nodes of both kinds and edges of the three relations
C9_Witness ==
  /\ pc = "done"
  /\ LET st == getGraphStats(graph)
     IN  /\ st.fileNodes > 0 /\ st.functionNodes > 0
         /\ st.importEdges > 0 /\ st.callEdges > 0 /\ st.containsEdges > 0

\* C10: the build never fails on a record that lacks an expected field: no
\* exception leaves buildDependencyGraph
C10_NeverThrows == pc # "threw"

(***************************************************************************)
(* findDownstreamNodes / findUpstreamNodes: the recursion of dfs, one step *)
(* per successor visited and per return                                    *)
(***************************************************************************)
N1 == <<"n", "1">>
N2 == <<"n", "2">>
N3 == <<"n", "3">>
Gone == <<"g", "o", "n", "e">>
GraphNodes == {N1, N2, N3}
QueryIds == GraphNodes \cup {Gone}

RECURSIVE SetToSeq(_)
SetToSeq(S) ==
  IF S = {} THEN << >>
  ELSE LET x == CHOOSE y \in S : TRUE IN <<x>> \o SetToSeq(S \ {x})

GraphOf(E) ==
  [nodes |-> [i \in 1..3 |-> [key |-> <<N1, N2, N3>>[i], val |-> [type |-> "function"]]],
   edges |-> [i \in 1..Cardinality(E) |->
                [key |-> SetToSeq(E)[i], val |-> [type |-> "calls"]]]]

QueryGraphs ==
  {GraphOf(E) : E \in {F \in SUBSET (GraphNodes \X GraphNodes) : Cardinality(F) <= MaxEdges}}

\* graph.successors in both traversals
NeighboursAlwaysSuccessors(g, dir, v) == Successors(g, v)

\* graph.successors(nodeId) in findDownstreamNodes, graph.predecessors(nodeId)
\* in findUpstreamNodes
Neighbours(g, dir, v) == IF dir = "down" THEN Successors(g, v) ELSE Predecessors(g, v)

\* the list used without `|| []'
OrEmptyDropped(r) == r

\* `|| []'
OrEmpty(r) == [defined |-> TRUE, ids |-> IF r.defined THEN r.ids ELSE {}]

\* a visited test that never holds
VisitedHasNever(vis, nodeId) == FALSE

\* if (visited.has(nodeId)) return;
VisitedHas(vis, nodeId) == nodeId \in vis

\* a visited set kept from the previous call
NewVisitedKept(previous) == previous

\* const visited = new Set()
NewVisited(previous) == {}

\* a result set that starts with the start node
NewReachedWithStart(start) == <<start>>

\* const downstream = new Set() / const upstream = new Set()
NewReached(start) == << >>

\* Array.prototype.push in the place of Set.prototype.add
SetAddAsPush(seq, x) == Append(seq, x)

\* Set.prototype.add on the insertion-ordered result
SetAdd(seq, x) == IF x \in Range(seq) THEN seq ELSE Append(seq, x)

\* dfs(nodeId) up to the forEach: st is [visited, stack, expanded, threw]
DfsCall(st, dir, nodeId) ==
  IF VisitedHas(st.visited, nodeId) THEN st
  ELSE LET r == OrEmpty(Neighbours(graph, dir, nodeId))
       IN  IF ~r.defined THEN [st EXCEPT !.threw = TRUE]
           ELSE [st EXCEPT !.visited = @ \cup {nodeId},
                           !.stack = Append(@, [node |-> nodeId, todo |-> r.ids]),
                           !.expanded = [@ EXCEPT ![nodeId] = @ + 1]]

DfsResult(st) ==
  /\ visited' = st.visited
  /\ stack' = st.stack
  /\ expanded' = st.expanded
  /\ pc' = IF st.threw THEN "threw" ELSE "running"

InitQuery ==
  /\ graph \in QueryGraphs
  /\ input = << >>
  /\ records = << >>
  /\ fileMap = << >>
  /\ functionMap = << >>
  /\ idx = 1
  /\ pc = "idle"
  /\ startNodeId = Undefined
  /\ direction = "none"
  /\ visited = {}
  /\ reached = << >>
  /\ stack = << >>
  /\ expanded = [v \in QueryIds |-> 0]
  /\ prior = NoQuery
  /\ ResolveIdle
  /\ FirstBuild
  /\ RippleIdle

\* findDownstreamNodes(graph, n) or findUpstreamNodes(graph, n) is called
Query(dir, n) ==
  /\ direction' = dir
  /\ startNodeId' = n
  /\ reached' = NewReached(n)
  /\ DfsResult(DfsCall([visited |-> NewVisited(visited), stack |-> << >>,
                        expanded |-> [v \in QueryIds |-> 0], threw |-> FALSE], dir, n))
  /\ UNCHANGED <<graph, buildVars, resolveVars, callVars, rippleVars>>

FirstQuery ==
  /\ pc = "idle"
  /\ \E dir \in {"down", "up"}, n \in QueryIds : Query(dir, n)
  /\ UNCHANGED prior

NextQuery ==
  /\ pc = "returned"
  /\ \E dir \in {"down", "up"}, n \in QueryIds : Query(dir, n)
  /\ prior' = [direction |-> direction, startNodeId |-> startNodeId,
               result |-> Range(reached)]

\* one iteration of successors.forEach: add the successor, call dfs on it
DfsVisit ==
  /\ pc = "running" /\ stack # << >>
  /\ Len(stack) < MaxDepth
  /\ LET top == stack[Len(stack)]
     IN  \E s \in top.todo :
           /\ reached' = SetAdd(reached, s)
           /\ DfsResult(DfsCall([visited |-> visited,
                                 stack |-> [stack EXCEPT ![Len(stack)].todo = @ \ {s}],
                                 expanded |-> expanded, threw |-> FALSE], direction, s))
  /\ UNCHANGED <<graph, buildVars, resolveVars, callVars, rippleVars, startNodeId, direction, prior>>

\* the forEach of the innermost call is over: dfs returns
DfsReturn ==
  /\ pc = "running" /\ stack # << >>
  /\ stack[Len(stack)].todo = {}
  /\ stack' = SubSeq(stack, 1, Len(stack) - 1)
  /\ UNCHANGED <<graph, buildVars, resolveVars, callVars, rippleVars, pc, startNodeId, direction, visited, reached,
                 expanded, prior>>

\* return Array.from(downstream)
QueryReturn ==
  /\ pc = "running" /\ stack = << >>
  /\ pc' = "returned"
  /\ UNCHANGED <<graph, buildVars, queryVars, resolveVars, callVars, rippleVars>>

DfsSteps == DfsVisit \/ DfsReturn \/ QueryReturn

NextTraverse ==
  \/ FirstQuery
  \/ NextQuery
  \/ DfsVisit
  \/ DfsReturn
  \/ QueryReturn

SpecTraverse == InitQuery /\ [][NextTraverse]_vars

\* a single query, run to completion without suspension
NextOneQuery ==
  \/ FirstQuery
  \/ DfsVisit
  \/ DfsReturn
  \/ QueryReturn

SpecOneQuery == InitQuery /\ [][NextOneQuery]_vars /\ WF_vars(DfsSteps)

(***************************************************************************)
(* Properties of the traversals                                            *)
(***************************************************************************)
\* a path of k >= 1 edges leads from a to b (a cycle back to a needs at
\* most as many edges as there are nodes)
PathExists(g, a, b) ==
  \E k \in 1..Cardinality(NodeIds(g)) :
    \E p \in [0..k -> NodeIds(g)] :
      /\ p[0] = a
      /\ p[k] = b
      /\ \A i \in 0..(k - 1) : <<p[i], p[i + 1]>> \in EdgePairs(g)

ReachableSet(g, dir, n) ==
  IF dir = "down" THEN {b \in NodeIds(g) : PathExists(g, n, b)}
  ELSE {a \in NodeIds(g) : PathExists(g, a, n)}

OnCycle(g, n) == n \in NodeIds(g) /\ PathExists(g, n, n)

Returned == pc = "returned"

\* C3: the list returned by findDownstreamNodes (findUpstreamNodes) holds
\* exactly the nodes reachable from n (from which n is reachable) by a path
\* of one or more edges, each node once
C3_ExactlyReachable ==
  Returned =>
    /\ Range(reached) = ReachableSet(graph, direction, startNodeId)
    /\ Len(reached) = Cardinality(Range(reached))

\* a query returned two or more nodes, one of them reached along two
\* different edges
C3_Witness ==
  /\ Returned
  /\ Len(reached) >= 2
  /\ \E v \in Range(reached) :
       Cardinality(Neighbours(graph, IF direction = "down" THEN "up" ELSE "down", v).ids
                     \cap (Range(reached) \cup {startNodeId})) >= 2

MutualCall(g, a, b) == a # b /\ <<a, b>> \in EdgePairs(g) /\ <<b, a>> \in EdgePairs(g)

\* C4: every query terminates, on graphs with directed cycles too; dfs
\* passes the visited test at most once per node; on the mutual call of foo
\* and bar the result for foo contains bar
C4_Terminates ==
  /\ [](\A v \in QueryIds : expanded[v] <= 1)
  /\ [](pc = "running" => <>(pc = "returned"))
  /\ [](Returned => \A b \in GraphNodes :
          MutualCall(graph, startNodeId, b) => b \in Range(reached))

\* a query on a mutual call returned
C4_Witness ==
  /\ Returned
  /\ \E b \in GraphNodes : MutualCall(graph, startNodeId, b)
  /\ expanded[startNodeId] = 1

\* C5 as claimed: the starting node is never a member of its own result
C5_StartExcluded == Returned => startNodeId \notin Range(reached)

\* C5: the starting node is a member of its own result exactly when it lies
\* on a directed cycle; with no cycle through it, it is excluded
C5_StartIffOnCycle ==
  Returned => (startNodeId \in Range(reached) <=> OnCycle(graph, startNodeId))

\* a query returned from a start node with successors and no cycle through
\* it
C5_Witness ==
  /\ Returned
  /\ reached # << >>
  /\ ~OnCycle(graph, startNodeId)

\* C6: if b is in findDownstreamNodes(G, a) then a is in
\* findUpstreamNodes(G, b); prior is the downstream query of a, the query
\* that returned is the upstream query of b
C6_DirectionsConsistent ==
  (/\ Returned
   /\ direction = "up"
   /\ prior.direction = "down"
   /\ startNodeId \in prior.result)
    => prior.startNodeId \in Range(reached)

\* b is two edges downstream of another node a, and both queries returned
C6_Witness ==
  /\ Returned
  /\ direction = "up"
  /\ prior.direction = "down"
  /\ startNodeId \in prior.result
  /\ startNodeId # prior.startNodeId
  /\ <<prior.startNodeId, startNodeId>> \notin EdgePairs(graph)

SameQueryAgain ==
  Returned /\ prior.direction = direction /\ prior.startNodeId = startNodeId

\* C7: a second call with the same graph and node returns the same set as
\* the first, and no step of a query changes the graph
C7_Idempotent ==
  [][/\ graph' = graph
     /\ SameQueryAgain' => Range(reached') = prior'.result]_vars

\* the same query returned twice on a node of a directed cycle
C7_Witness ==
  /\ SameQueryAgain
  /\ OnCycle(graph, startNodeId)
  /\ Len(reached) >= 2

\* C8: a query with a node id absent from the graph does not fail and
\* returns the empty set
C8_UnknownNodeEmpty ==
  (startNodeId \notin NodeIds(graph) /\ direction # "none")
    => /\ pc # "threw"
       /\ reached = << >>

\* a query with an absent id returned
C8_Witness ==
  /\ Returned
  /\ startNodeId = Gone
  /\ EdgePairs(graph) # {}

(***************************************************************************)
(* The build on the projects of the scenarios: up to three files, each     *)
(* with one of the contents below                                          *)
(***************************************************************************)
Content(fs, is, cs) == [functions |-> fs, imports |-> is, functionCalls |-> cs]

CaseContents ==
  { Content(<<Fn(Foo, 3)>>, <<Imp(DotSlashB, "import")>>, <<Call(Bar, 4)>>),
    Content(<<Fn(Bar, 1)>>, << >>, << >>),
    Content(<<Fn(Foo, 3)>>, <<Imp(DotSlashMissing, "import")>>, <<Call(Baz, 2)>>),
    Content(<<Fn(Foo, 1), Fn(Bar, 10)>>, << >>, <<Call(Foo, 15)>>),
    Content(<<Fn(Bar, 10), Fn(Foo, 1)>>, << >>, <<Call(Foo, 15)>>),
    Content(<<Fn(Foo, 1), Fn(Foo, 10)>>, << >>, <<Call(Bar, 4)>>),
    Content(<<Fn(Baz, 5), Fn(Foo, 3)>>, << >>, <<Call(Bar, 2)>>),
    Content(<<Fn(Foo, 3)>>, << >>, <<Call(Bar, 0)>>),
    Content(<<Fn(Foo, 3)>>,
            <<Imp(DotSlashB, "import"), Imp(DotSlashB, "require")>>,
            <<Call(Bar, 4), Call(Bar, 5)>>),
    Content(<<Fn(Foo, 1), Fn(Foo, 10), Fn(Bar, 20)>>, << >>, <<Call(Foo, 25)>>),
    Content(<<Fn(Bar, 1)>>, << >>, <<Call(Foo, 2)>>),
    Content(<< >>, <<Imp(<<"j", "s">>, "import")>>, << >>),
    Content(<< >>, << >>, <<Call(Bar, 4)>>),
    Content(<< >>, << >>, << >>) }

CaseRecords ==
  {Rec(f, c.functions, c.imports, c.functionCalls) : f \in Paths, c \in CaseContents}
    \cup {Lacking(Rec(f, << >>, << >>, << >>), "functions") : f \in Paths}
    \cup {Rec(f, << >>, <<Imp(Undefined, "import")>>, << >>) : f \in Paths}

\* the orders in which up to three of the files are given
PathOrders ==
  {ps \in UNION {[1..n -> Paths] : n \in 0..(MaxRecords + 1)} :
     \A i, j \in 1..Len(ps) : i # j => ps[i] # ps[j]}

CaseInputs ==
  UNION { {rs \in [1..Len(ps) -> CaseRecords] : \A i \in 1..Len(ps) : rs[i].filename = ps[i]}
          : ps \in PathOrders }

InitCases ==
  /\ records \in CaseInputs
  /\ input = records
  /\ graph = EmptyGraph
  /\ fileMap = << >>
  /\ functionMap = << >>
  /\ pc = "nodes"
  /\ idx = 1
  /\ QueryIdle
  /\ ResolveIdle
  /\ FirstBuild
  /\ RippleIdle

SpecCases == InitCases /\ [][NextBuild]_vars

(***************************************************************************)
(* Properties of the build on the scenarios                                *)
(***************************************************************************)
FooOfA == FunctionId(PathA, Fn(Foo, 3), 0)
BarOfB == FunctionId(PathB, Fn(Bar, 1), 0)

ScenarioA ==
  << Rec(PathA, <<Fn(Foo, 3)>>, <<Imp(DotSlashB, "import")>>, <<Call(Bar, 4)>>),
     Rec(PathB, <<Fn(Bar, 1)>>, << >>, << >>) >>

EdgesOfType(g, t) == {e \in EdgePairs(g) : EdgeLabel(g, e[1], e[2]).type = t}

\* C11: Scenario A gives 2 file nodes, 2 function nodes, 2 contains edges,
\* the imports edge file:a.js -> file:b.js and the calls edge foo -> bar,
\* and nothing else
C11_ScenarioA ==
  (pc = "done" /\ input = ScenarioA) =>
    /\ getGraphStats(graph) =
         [totalNodes |-> 4, totalEdges |-> 4, fileNodes |-> 2, functionNodes |-> 2,
          importEdges |-> 1, callEdges |-> 1, containsEdges |-> 2]
    /\ EdgesOfType(graph, "imports") = {<<FileId(PathA), FileId(PathB)>>}
    /\ EdgesOfType(graph, "calls") = {<<FooOfA, BarOfB>>}
    /\ EdgesOfType(graph, "contains") =
         {<<FileId(PathA), FooOfA>>, <<FileId(PathB), BarOfB>>}

\* the build of Scenario A has returned
C11_Witness == pc = "done" /\ input = ScenarioA /\ Len(graph.edges) = 4

(***************************************************************************)
(* buildDependencyGraph(parsedFiles) as a whole, for records that lack no  *)
(* field: the three forEach loops one after the other                      *)
(***************************************************************************)
RECURSIVE RunNodePass(_, _, _)
RunNodePass(st, rs, i) ==
  IF i > Len(rs) THEN st ELSE RunNodePass(NodePassFile(st, rs[i]), rs, i + 1)

RECURSIVE RunImportPass(_, _, _)
RunImportPass(st, rs, i) ==
  IF i > Len(rs) THEN st ELSE RunImportPass(ImportPassFile(st, rs[i]), rs, i + 1)

RECURSIVE RunCallPass(_, _, _, _)
RunCallPass(g, fnMap, rs, i) ==
  IF i > Len(rs) THEN g
  ELSE RunCallPass(CallPassFile([graph |-> g, functionMap |-> fnMap,
                                 functions |-> rs[i].functions], rs[i]).graph,
                   fnMap, rs, i + 1)

GraphBuiltFrom(rs) ==
  LET s1 == RunNodePass([graph |-> EmptyGraph, fileMap |-> << >>, functionMap |-> << >>],
                        rs, 1)
      s2 == RunImportPass(s1, rs, 1)
  IN  RunCallPass(s2.graph, s2.functionMap, rs, 1)

Throws(rs) ==
  \E i \in 1..Len(rs) :
    \/ rs[i].missing \cap {"functions", "imports"} # {}
    \/ \E k \in 1..Len(rs[i].imports) : rs[i].imports[k].source = Undefined

\* a sequence without its k-th element
Without(seq, k) == SubSeq(seq, 1, k - 1) \o SubSeq(seq, k + 1, Len(seq))

\* import k of record i matches no file of the input
UnresolvedImport(i, k) ==
  MapGet(fileMap, resolveImportPath(input[i].imports[k].source, input[i].filename,
                                    MapKeys(fileMap))) = Undefined

\* call site k of record i names a function declared in no record
UnresolvedCall(i, k) ==
  \A j \in 1..Len(input) : \A f \in 1..Len(input[j].functions) :
    input[j].functions[f].name # input[i].functionCalls[k].name

SameNodesAndEdges(g, h) ==
  /\ NodeIds(g) = NodeIds(h)
  /\ Range(g.edges) = Range(h.edges)

\* C12: an import that matches no file and a call to a function declared
\* nowhere raise no error and add no edge: the returned graph has the nodes
\* and edges of the build of the input without that reference
C12_UnresolvedDropped ==
  /\ ~Throws(input) => pc # "threw"
  /\ pc = "done" =>
       \A i \in 1..Len(input) :
         /\ \A k \in 1..Len(input[i].imports) :
              UnresolvedImport(i, k) =>
                SameNodesAndEdges(graph,
                  GraphBuiltFrom([input EXCEPT ![i].imports = Without(@, k)]))
         /\ \A k \in 1..Len(input[i].functionCalls) :
              UnresolvedCall(i, k) =>
                /\ Range(graph.nodes) =
                     Range(GraphBuiltFrom([input EXCEPT ![i].functionCalls = Without(@, k)]).nodes)
                /\ Range(graph.edges) =
                     Range(GraphBuiltFrom([input EXCEPT ![i].functionCalls = Without(@, k)]).edges)

\* a returned graph with edges, built from an input with an import of
\* ./missing and a call of a function declared nowhere
C12_Witness ==
  /\ pc = "done"
  /\ \E i \in 1..Len(input) : \E k \in 1..Len(input[i].imports) : UnresolvedImport(i, k)
  /\ \E i \in 1..Len(input) : \E k \in 1..Len(input[i].functionCalls) : UnresolvedCall(i, k)
  /\ EdgesOfType(graph, "imports") # {}
  /\ EdgesOfType(graph, "calls") # {}

\* the functions of record i have pairwise distinct names
DistinctNames(i) ==
  \A j, j2 \in 1..Len(input[i].functions) :
    j # j2 => input[i].functions[j].name # input[i].functions[j2].name

\* node id of the j-th declared function of record i
DeclaredId(i, j) == FunctionId(input[i].filename, input[i].functions[j], j - 1)

\* the declarations of record i whose line is the greatest one <= L
GreatestAtMost(i, L) ==
  {j \in 1..Len(input[i].functions) :
     /\ input[i].functions[j].line <= L
     /\ \A j2 \in 1..Len(input[i].functions) :
          input[i].functions[j2].line <= L =>
            input[i].functions[j2].line <= input[i].functions[j].line}

TargetOf(i, k) ==
  ResolveCallee(functionMap, input[i].filename, input[i].functionCalls[k].name)

\* call site k of record i has a line, a resolved target and a declaration
\* at or before its line
Contained(i, k) ==
  /\ input[i].functionCalls[k].line > 0
  /\ TargetOf(i, k) # Undefined
  /\ GreatestAtMost(i, input[i].functionCalls[k].line) # {}

ScenarioC ==
  << Rec(PathA, <<Fn(Foo, 1), Fn(Bar, 10)>>, << >>, <<Call(Foo, 15)>>) >>

ScenarioCUnsorted ==
  << Rec(PathA, <<Fn(Bar, 10), Fn(Foo, 1)>>, << >>, <<Call(Foo, 15)>>) >>

\* C13: in a record whose functions have distinct names, the calls edge of
\* a call site at line L starts at the function declared at the greatest
\* line <= L, in whatever order the record lists the declarations, and the
\* record's functions start no other calls edge; foo at 1, bar at 10 and a
\* call of foo at 15 give bar -> foo only
C13_SourceIsGreatestAtMost ==
  pc = "done" =>
    /\ \A i \in 1..Len(input) :
         DistinctNames(i) =>
           /\ \A k \in 1..Len(input[i].functionCalls) :
                Contained(i, k) =>
                  \E j \in GreatestAtMost(i, input[i].functionCalls[k].line) :
                    \/ DeclaredId(i, j) = TargetOf(i, k)
                    \/ <<DeclaredId(i, j), TargetOf(i, k)>> \in EdgesOfType(graph, "calls")
           /\ (\A k \in 1..Len(input[i].functionCalls) :
                 TargetOf(i, k) # Undefined => Contained(i, k)) =>
                \A e \in EdgesOfType(graph, "calls") :
                  (\E j \in 1..Len(input[i].functions) : e[1] = DeclaredId(i, j)) =>
                    \E k \in 1..Len(input[i].functionCalls) :
                      /\ Contained(i, k)
                      /\ e[2] = TargetOf(i, k)
                      /\ \E j \in GreatestAtMost(i, input[i].functionCalls[k].line) :
                           e[1] = DeclaredId(i, j)
    /\ input \in {ScenarioC, ScenarioCUnsorted} =>
         EdgesOfType(graph, "calls") =
           {<<FunctionId(PathA, Fn(Bar, 10), 0), FunctionId(PathA, Fn(Foo, 1), 0)>>}

\* the record lists bar (line 10) before foo (line 1) and the graph built
\* from it has the edge bar -> foo
C13_Witness ==
  /\ pc = "done"
  /\ input = ScenarioCUnsorted
  /\ <<FunctionId(PathA, Fn(Bar, 10), 0), FunctionId(PathA, Fn(Foo, 1), 0)>>
       \in EdgesOfType(graph, "calls")

(***************************************************************************)
(* resolveImportPath called on its own: the three arguments are drawn from *)
(* small sets, the call returns its value                                  *)
(***************************************************************************)
MaxFiles == 2

PathDBTs == <<"d", "/", "b", ".", "t", "s">>
PathDEF == <<"d", "/", "e", "/", "f", ".", "j", "s">>
DotDotSlashB == <<".", ".", "/", "b">>
BareB == <<"b">>
BareReact == <<"r", "e", "a", "c", "t">>

\* b, b.js, b.jsx, b.ts, b.tsx, b.json, b/index.js, b/index.ts, a.js,
\* d/b.ts, d/index.js
ResolvePaths ==
  { <<"b">>, PathB, <<"b", ".", "j", "s", "x">>, <<"b", ".", "t", "s">>,
    <<"b", ".", "t", "s", "x">>, <<"b", ".", "j", "s", "o", "n">>,
    <<"b", "/", "i", "n", "d", "e", "x", ".", "j", "s">>,
    <<"b", "/", "i", "n", "d", "e", "x", ".", "t", "s">>,
    PathA, PathDBTs, PathDIndex }

\* ./b, ../b, ./d, ../../a, ./d/../b, ./missing
RelativeSpecifiers ==
  { DotSlashB, DotDotSlashB, DotSlashD,
    <<".", ".", "/", ".", ".", "/", "a">>,
    <<".", "/", "d", "/", ".", ".", "/", "b">>,
    DotSlashMissing }

\* a, b, react, index, d/b
BareSpecifiers == {BareA, BareB, BareReact, <<"i", "n", "d", "e", "x">>, <<"d", "/", "b">>}

SourcePaths == {PathA, PathDIndex, PathDEF}

\* Array.from(fileMap.keys()): the keys of a Map are distinct
PathLists ==
  {ps \in UNION {[1..n -> ResolvePaths] : n \in 0..MaxFiles} :
     \A i, j \in 1..Len(ps) : i # j => ps[i] # ps[j]}

InitResolve ==
  /\ specifier \in RelativeSpecifiers \cup BareSpecifiers
  /\ sourcePath \in SourcePaths
  /\ allPaths \in PathLists
  /\ returnValue = Undefined
  /\ pc = "resolve"
  /\ input = << >>
  /\ records = << >>
  /\ graph = EmptyGraph
  /\ fileMap = << >>
  /\ functionMap = << >>
  /\ idx = 1
  /\ QueryIdle
  /\ FirstBuild
  /\ RippleIdle

ResolveCall ==
  /\ pc = "resolve"
  /\ returnValue' = resolveImportPath(specifier, sourcePath, allPaths)
  /\ pc' = "resolved"
  /\ UNCHANGED <<graph, buildVars, queryVars, callVars, rippleVars, specifier, sourcePath,
                 allPaths>>

NextResolve == ResolveCall

SpecResolve == InitResolve /\ [][NextResolve]_vars

\* the segments of `parts' that survive, read from the right: a '..' cancels
\* the nearest segment to its left, `pending' counts the '..' not yet used
RECURSIVE KeptFromRight(_, _)
KeptFromRight(parts, pending) ==
  IF parts = << >> THEN [kept |-> << >>, pending |-> pending]
  ELSE LET last == parts[Len(parts)]
           front == SubSeq(parts, 1, Len(parts) - 1)
       IN  IF last = <<".", ".">> THEN KeptFromRight(front, pending + 1)
           ELSE IF last = <<".">> THEN KeptFromRight(front, pending)
           ELSE IF pending > 0 THEN KeptFromRight(front, pending - 1)
           ELSE LET r == KeptFromRight(front, 0)
                IN  [kept |-> Append(r.kept, last), pending |-> r.pending]

\* the specifier normalized against the directory of the source path
Normalized ==
  LET dir == DropLast(Split(sourcePath, "/"))
      r == KeptFromRight(Split(specifier, "/"), 0)
      up == IF r.pending < Len(dir) THEN r.pending ELSE Len(dir)
  IN  Join(SubSeq(dir, 1, Len(dir) - up) \o r.kept, "/")

Suffixes ==
  << << >>, <<".", "j", "s">>, <<".", "j", "s", "x">>, <<".", "t", "s">>,
     <<".", "t", "s", "x">>, <<".", "j", "s", "o", "n">>,
     <<"/", "i", "n", "d", "e", "x", ".", "j", "s">>,
     <<"/", "i", "n", "d", "e", "x", ".", "t", "s">> >>

IsPath(p) == \E i \in 1..Len(allPaths) : allPaths[i] = p

RelativeCase ==
  \/ (specifier[1] = "." /\ specifier[2] = "/")
  \/ (specifier[1] = "." /\ specifier[2] = "." /\ specifier[3] = "/")

\* C15: for a specifier starting with ./ or ../ the value returned is the
\* first of normalized + s, s in the order '', .js, .jsx, .ts, .tsx, .json,
\* /index.js, /index.ts, that is in allPaths, and normalized + '.js' when
\* none is
C15_RelativeResolution ==
  (pc = "resolved" /\ RelativeCase) =>
    \/ \E r \in 1..Len(Suffixes) :
         /\ IsPath(Normalized \o Suffixes[r])
         /\ \A q \in 1..(r - 1) : ~IsPath(Normalized \o Suffixes[q])
         /\ returnValue = Normalized \o Suffixes[r]
    \/ /\ \A q \in 1..Len(Suffixes) : ~IsPath(Normalized \o Suffixes[q])
       /\ returnValue = Normalized \o <<".", "j", "s">>

\* ../b from d/e/f.js with d/b.ts among the paths: one '..' pops e, and
\* the suffix .ts is the first that gives a path
C15_Witness ==
  /\ pc = "resolved"
  /\ specifier = DotDotSlashB
  /\ sourcePath = PathDEF
  /\ IsPath(PathDBTs)
  /\ returnValue = PathDBTs

\* file contains sub as a run of consecutive characters
HasSubstring(file, sub) ==
  \E i \in 0..(Len(file) - Len(sub)) : SubSeq(file, i + 1, i + Len(sub)) = sub

HasSuffix(file, suf) ==
  Len(file) >= Len(suf) /\ SubSeq(file, Len(file) - Len(suf) + 1, Len(file)) = suf

\* path i of allPaths matches the bare specifier
Matches(i) ==
  \/ HasSubstring(allPaths[i], specifier)
  \/ HasSuffix(allPaths[i], <<"/">> \o specifier \o <<".", "j", "s">>)
  \/ HasSuffix(allPaths[i], <<"/">> \o specifier \o <<".", "t", "s">>)
  \/ HasSuffix(allPaths[i], <<"/">> \o specifier \o <<"/", "i", "n", "d", "e", "x", ".", "j", "s">>)
  \/ HasSuffix(allPaths[i], <<"/">> \o specifier \o <<"/", "i", "n", "d", "e", "x", ".", "t", "s">>)

FirstMatchReturned ==
  \A i \in 1..Len(allPaths) :
    (Matches(i) /\ \A j \in 1..(i - 1) : ~Matches(j)) => returnValue = allPaths[i]

NoMatch == \A i \in 1..Len(allPaths) : ~Matches(i)

\* C16, as stated: a bare specifier gives the first matching path of
\* allPaths and null when no path matches
C16_FirstMatchOrNull ==
  (pc = "resolved" /\ ~RelativeCase) =>
    /\ FirstMatchReturned
    /\ NoMatch => returnValue = Null

\* C16: a bare specifier gives the first matching path of allPaths, and
\* the specifier itself, unchanged, when no path matches
C16_FirstMatchOrSpecifier ==
  (pc = "resolved" /\ ~RelativeCase) =>
    /\ FirstMatchReturned
    /\ NoMatch => returnValue = specifier

\* no path contains react, and react came back
C16_Witness ==
  /\ pc = "resolved"
  /\ specifier = BareReact
  /\ allPaths = <<PathA, PathB>>
  /\ returnValue = BareReact

\* the declarations of record i named name
Declaring(i, name) ==
  {j \in 1..Len(input[i].functions) : input[i].functions[j].name = name}

\* node id of the last declaration named name in record i
LastDeclared(i, name) ==
  DeclaredId(i, CHOOSE j \in Declaring(i, name) : \A j2 \in Declaring(i, name) : j2 <= j)

\* the callee of call site k of record i: the caller's own file first, then
\* the first record of the input that declares the name
ExpectedTarget(i, k) ==
  LET name == input[i].functionCalls[k].name
      others == {r \in 1..Len(input) : Declaring(r, name) # {}}
  IN  IF Declaring(i, name) # {} THEN LastDeclared(i, name)
      ELSE IF others # {}
      THEN LastDeclared(CHOOSE r \in others : \A r2 \in others : r <= r2, name)
      ELSE Undefined

\* the node the code takes as the caller of call site k of record i
CallerOf(i, k) ==
  MapGet(functionMap,
         input[i].filename \o Colon \o
           findContainingFunction(input[i].functions, input[i].functionCalls[k].line).func.name)

HasCaller(i, k) ==
  findContainingFunction(input[i].functions, input[i].functionCalls[k].line).found

\* C17: the callee of a call is the function of that name of the caller's
\* own file when it declares one, even if an earlier record declares the
\* name too, and otherwise the function of that name of the first record,
\* in input order, that declares one; the calls edges end there and nowhere
\* else
C17_OwnFileFirst ==
  pc = "done" =>
    /\ \A i \in 1..Len(input) : \A k \in 1..Len(input[i].functionCalls) :
         /\ TargetOf(i, k) = ExpectedTarget(i, k)
         /\ (HasCaller(i, k) /\ ExpectedTarget(i, k) # Undefined
               /\ CallerOf(i, k) # ExpectedTarget(i, k)) =>
              <<CallerOf(i, k), ExpectedTarget(i, k)>> \in EdgesOfType(graph, "calls")
    /\ \A e \in EdgesOfType(graph, "calls") :
         \E i \in 1..Len(input) : \E k \in 1..Len(input[i].functionCalls) :
           /\ \E j \in 1..Len(input[i].functions) : e[1] = DeclaredId(i, j)
           /\ e[2] = ExpectedTarget(i, k)

\* d/index.js declares foo and calls bar; a.js, after it, declares foo and
\* bar and calls foo from bar; b.js, last, declares bar: the call of foo
\* ends at the foo of a.js, the call of bar at the bar of a.js
C17_Witness ==
  /\ pc = "done"
  /\ input = << Rec(PathDIndex, <<Fn(Foo, 3)>>, <<Imp(DotSlashB, "import")>>, <<Call(Bar, 4)>>),
                Rec(PathA, <<Fn(Foo, 1), Fn(Bar, 10)>>, << >>, <<Call(Foo, 15)>>),
                Rec(PathB, <<Fn(Bar, 1)>>, << >>, << >>) >>
  /\ EdgesOfType(graph, "calls") =
       { <<FunctionId(PathDIndex, Fn(Foo, 3), 0), FunctionId(PathA, Fn(Bar, 10), 1)>>,
         <<FunctionId(PathA, Fn(Bar, 10), 1), FunctionId(PathA, Fn(Foo, 1), 0)>> }

\* the declarations of record i a call at line L may be attributed to: the
\* ones at the greatest line <= L and, when there is none, the last one of
\* the record (in the order of the record or by line)
ContainingOrLast(i, L) ==
  IF GreatestAtMost(i, L) # {} THEN GreatestAtMost(i, L)
  ELSE {j \in 1..Len(input[i].functions) :
          \/ j = Len(input[i].functions)
          \/ \A j2 \in 1..Len(input[i].functions) :
               input[i].functions[j2].line <= input[i].functions[j].line}

\* C18, as stated: in a record with at least one function every call site
\* with a resolved target has a containing function (the last one when no
\* declaration line is <= L) and, the target being another node, a calls
\* edge from it; a record with no function starts no calls edge
C18_CallerNeverEmpty ==
  pc = "done" =>
    \A i \in 1..Len(input) : \A k \in 1..Len(input[i].functionCalls) :
      (Len(input[i].functions) > 0 /\ TargetOf(i, k) # Undefined) =>
        /\ HasCaller(i, k)
        /\ \E j \in ContainingOrLast(i, input[i].functionCalls[k].line) :
             \/ DeclaredId(i, j) = TargetOf(i, k)
             \/ <<DeclaredId(i, j), TargetOf(i, k)>> \in EdgesOfType(graph, "calls")

\* C19, as stated: two functions of a record with the same name and
\* different lines are two nodes, and the calls edge of a call site starts
\* at the node of the function that contains it (the declaration at the
\* greatest line <= L), not at the other node of that name
C19_SourceIsContainingNode ==
  pc = "done" =>
    \A i \in 1..Len(input) :
      /\ \A j, j2 \in 1..Len(input[i].functions) :
           (input[i].functions[j].name = input[i].functions[j2].name
              /\ input[i].functions[j].line # input[i].functions[j2].line) =>
             /\ DeclaredId(i, j) # DeclaredId(i, j2)
             /\ {DeclaredId(i, j), DeclaredId(i, j2)} \subseteq NodeIds(graph)
      /\ \A k \in 1..Len(input[i].functionCalls) :
           Contained(i, k) =>
             /\ CallerOf(i, k) \in
                  {DeclaredId(i, j) : j \in GreatestAtMost(i, input[i].functionCalls[k].line)}
             /\ \A j \in GreatestAtMost(i, input[i].functionCalls[k].line) :
                  \/ DeclaredId(i, j) = TargetOf(i, k)
                  \/ <<DeclaredId(i, j), TargetOf(i, k)>> \in EdgesOfType(graph, "calls")

\* the file import k of record i resolves to
ImportTarget(i, k) ==
  MapGet(fileMap, resolveImportPath(input[i].imports[k].source, input[i].filename,
                                    MapKeys(fileMap)))

\* the imports of record i that give the imports edge e
ImportsGiving(i, e) ==
  {k \in 1..Len(input[i].imports) :
     /\ ImportTarget(i, k) # Undefined
     /\ e = <<FileId(input[i].filename), ImportTarget(i, k)>>
     /\ e[1] # e[2]}

\* the call sites of record i that give the calls edge e
CallsGiving(i, e) ==
  {k \in 1..Len(input[i].functionCalls) :
     /\ TargetOf(i, k) # Undefined
     /\ HasCaller(i, k)
     /\ CallerOf(i, k) # Undefined
     /\ e = <<CallerOf(i, k), TargetOf(i, k)>>
     /\ e[1] # e[2]}

Least(S) == CHOOSE k \in S : \A k2 \in S : k <= k2
Greatest(S) == CHOOSE k \in S : \A k2 \in S : k2 <= k

\* pairs given by some import, by some call site
ImportPairs ==
  {e \in NodeIds(graph) \X NodeIds(graph) : \E i \in 1..Len(input) : ImportsGiving(i, e) # {}}

CallPairs ==
  {e \in NodeIds(graph) \X NodeIds(graph) : \E i \in 1..Len(input) : CallsGiving(i, e) # {}}

\* one edge per pair, however many imports or call sites give the pair
OneEdgePerPair ==
  /\ getGraphStats(graph).importEdges = Cardinality(ImportPairs)
  /\ getGraphStats(graph).callEdges = Cardinality(CallPairs)

\* C20, as stated: a second import or call site that gives an edge already
\* there adds no edge and the edge keeps the payload of the first
C20_FirstPayloadKept ==
  pc = "done" =>
    /\ OneEdgePerPair
    /\ \A i \in 1..Len(input) :
         /\ \A e \in EdgesOfType(graph, "imports") :
              ImportsGiving(i, e) # {} =>
                EdgeLabel(graph, e[1], e[2]) =
                  ImportsLabel(input[i].imports[Least(ImportsGiving(i, e))])
         /\ \A e \in EdgesOfType(graph, "calls") :
              CallsGiving(i, e) # {} =>
                EdgeLabel(graph, e[1], e[2]) =
                  CallsLabel(input[i].functionCalls[Least(CallsGiving(i, e))])

\* C20: a second import or call site that gives an edge already there adds
\* no edge, and the edge takes the payload of the last import or call site
\* that gives it
C20_LastPayloadWins ==
  pc = "done" =>
    /\ OneEdgePerPair
    /\ \A i \in 1..Len(input) :
         /\ \A e \in EdgesOfType(graph, "imports") :
              ImportsGiving(i, e) # {} =>
                EdgeLabel(graph, e[1], e[2]) =
                  ImportsLabel(input[i].imports[Greatest(ImportsGiving(i, e))])
         /\ \A e \in EdgesOfType(graph, "calls") :
              CallsGiving(i, e) # {} =>
                EdgeLabel(graph, e[1], e[2]) =
                  CallsLabel(input[i].functionCalls[Greatest(CallsGiving(i, e))])

\* a.js imports ./b twice (import, then require) and calls bar twice from
\* foo (lines 4 and 5): one imports edge, of kind require, and one calls
\* edge, of line 5
C20_Witness ==
  /\ pc = "done"
  /\ input = << Rec(PathA, <<Fn(Foo, 3)>>,
                    <<Imp(DotSlashB, "import"), Imp(DotSlashB, "require")>>,
                    <<Call(Bar, 4), Call(Bar, 5)>>),
                Rec(PathB, <<Fn(Bar, 1)>>, << >>, << >>) >>
  /\ getGraphStats(graph).importEdges = 1
  /\ getGraphStats(graph).callEdges = 1
  /\ EdgeLabel(graph, FileId(PathA), FileId(PathB)).importType = "require"
  /\ EdgeLabel(graph, FooOfA, BarOfB).line = 5

\* C21, as stated: the build leaves its argument as it was: each record
\* has the same functions, imports and call sites in the same order as
\* before the build
C21_InputUnchanged ==
  pc = "done" =>
    /\ Len(records) = Len(input)
    /\ \A i \in 1..Len(input) :
         /\ records[i].functions = input[i].functions
         /\ records[i].imports = input[i].imports
         /\ records[i].functionCalls = input[i].functionCalls

Reverse(seq) == [i \in 1..Len(seq) |-> seq[Len(seq) + 1 - i]]

\* every file and every function of the input has its node
AllNodesExist ==
  \A i \in 1..Len(input) :
    /\ FileId(input[i].filename) \in NodeIds(graph)
    /\ \A j \in 1..Len(input[i].functions) : DeclaredId(i, j) \in NodeIds(graph)

\* every name called is declared in one record at most
OneDeclarer ==
  \A i \in 1..Len(input) : \A k \in 1..Len(input[i].functionCalls) :
    Cardinality({r \in 1..Len(input) : Declaring(r, input[i].functionCalls[k].name) # {}}) <= 1

LabelledEdges(g, t) == {e \in Range(g.edges) : e.val.type = t}

\* every bare specifier imported matches one filename at most
OneMatch ==
  \A i \in 1..Len(input) : \A k \in 1..Len(input[i].imports) :
    LET sp == input[i].imports[k].source
    IN  (sp[1] # "." \/ Len(sp) < 2 \/ (sp[2] # "/" /\ sp[2] # ".")) =>
          Cardinality({r \in 1..Len(input) :
                         \E a \in 0..(Len(input[r].filename) - Len(sp)) :
                           SubSeq(input[r].filename, a + 1, a + Len(sp)) = sp}) <= 1

\* C22: no imports or calls edge is in the graph before every file and
\* function node is, and a reference to a record is resolved to the same
\* node whether that record comes later or earlier in the input: the
\* imports edges (no bare specifier matching two files) and the calls edges
\* (no name called having two declaring records) are those of the build
\* of the input in the opposite order
C22_NodePassFirst ==
  /\ pc = "nodes" => EdgesOfType(graph, "imports") \cup EdgesOfType(graph, "calls") = {}
  /\ pc \in {"imports", "calls", "done"} => AllNodesExist
  /\ pc = "done" =>
       /\ OneMatch =>
            LabelledEdges(graph, "imports") =
              LabelledEdges(GraphBuiltFrom(Reverse(input)), "imports")
       /\ OneDeclarer =>
            LabelledEdges(graph, "calls") =
              LabelledEdges(GraphBuiltFrom(Reverse(input)), "calls")

\* a.js, first in the input, imports ./b and calls bar; b.js, which
\* declares bar, comes after it, and both edges are in the graph
C22_Witness ==
  /\ pc = "done"
  /\ Len(input) = 2
  /\ input[1].filename = PathA /\ input[2].filename = PathB
  /\ <<FileId(PathA), FileId(PathB)>> \in EdgesOfType(graph, "imports")
  /\ <<FooOfA, BarOfB>> \in EdgesOfType(graph, "calls")

(***************************************************************************)
(* buildDependencyGraph called again, on other records, after it returned  *)
(***************************************************************************)
MaxBuilds == 2

\* the graph of the call before, taken over
NewGraphKept(previous) == previous

\* const graph = new graphlib.Graph({ directed: true })
NewGraph(previous) == EmptyGraph

\* const fileMap = new Map(); const functionMap = new Map()
NewMap(previous) == << >>

ScenarioD ==
  << Rec(PathDIndex, <<Fn(Baz, 5), Fn(Foo, 3)>>, << >>, <<Call(Bar, 2)>>),
     Rec(PathB, <<Fn(Bar, 1)>>, << >>, << >>) >>

RebuildInputs ==
  { ScenarioA, Reverse(ScenarioA), ScenarioC, ScenarioCUnsorted, ScenarioD,
    << Rec(PathB, <<Fn(Bar, 1)>>, << >>, << >>) >>,
    << Lacking(Rec(PathA, << >>, << >>, << >>), "functions") >>,
    << Rec(PathA, << >>, <<Imp(Undefined, "import")>>, << >>) >>,
    << >> }

InitRebuild ==
  /\ records \in RebuildInputs
  /\ input = records
  /\ graph = EmptyGraph
  /\ fileMap = << >>
  /\ functionMap = << >>
  /\ pc = "nodes"
  /\ idx = 1
  /\ QueryIdle
  /\ ResolveIdle
  /\ FirstBuild
  /\ RippleIdle

\* the next call of buildDependencyGraph, after the one before returned or
\* threw
BuildAgain ==
  /\ pc \in {"done", "threw"}
  /\ builds < MaxBuilds
  /\ records' \in RebuildInputs
  /\ input' = records'
  /\ graph' = NewGraph(graph)
  /\ fileMap' = NewMap(fileMap)
  /\ functionMap' = NewMap(functionMap)
  /\ idx' = 1
  /\ pc' = "nodes"
  /\ builds' = builds + 1
  /\ priorInput' = input
  /\ UNCHANGED <<queryVars, resolveVars, rippleVars>>

NextRebuild ==
  \/ NextBuild
  \/ BuildAgain

SpecRebuild == InitRebuild /\ [][NextRebuild]_vars

\* the keys the node pass enters in functionMap for the records rs
NameKeys(rs) ==
  UNION { UNION { {rs[i].filename \o Colon \o rs[i].functions[j].name,
                   rs[i].functions[j].name} : j \in 1..Len(rs[i].functions) } :
          i \in 1..Len(rs) }

\* C23: the graph a call returns is the graph of its own argument, also
\* when an earlier call built another graph: it has the nodes and edges of
\* the build of the argument alone, and the two name indexes hold entries
\* of the argument's records only
C23_RebuildReplaces ==
  pc = "done" =>
    /\ graph = GraphBuiltFrom(input)
    /\ Range(MapKeys(fileMap)) = {input[i].filename : i \in 1..Len(input)}
    /\ Range(MapKeys(functionMap)) = NameKeys(input)

\* the second call, on Scenario C, returned after the first had built
\* Scenario A: nothing of b.js is in the graph
C23_Witness ==
  /\ pc = "done"
  /\ builds = 2
  /\ priorInput = ScenarioA
  /\ input = ScenarioC
  /\ FileId(PathB) \notin NodeIds(graph)
  /\ Len(graph.nodes) = 3

(***************************************************************************)
(* findDownstreamNodes / findUpstreamNodes as whole calls on a graph g     *)
(***************************************************************************)
RECURSIVE dfs(_, _, _, _)
RECURSIVE dfsEach(_, _, _, _)

\* function dfs(nodeId): st is [visited, reached]
dfs(g, dir, st, nodeId) ==
  IF VisitedHas(st.visited, nodeId) THEN st
  ELSE dfsEach(g, dir, [st EXCEPT !.visited = @ \cup {nodeId}],
               SetToSeq(OrEmpty(Neighbours(g, dir, nodeId)).ids))

\* successors.forEach(successor => { downstream.add(successor); dfs(successor) })
dfsEach(g, dir, st, todo) ==
  IF todo = << >> THEN st
  ELSE dfsEach(g, dir,
               dfs(g, dir, [st EXCEPT !.reached = SetAdd(@, Head(todo))], Head(todo)),
               Tail(todo))

findDownstreamNodes(g, startNodeIdArg) ==
  dfs(g, "down", [visited |-> NewVisited({}), reached |-> NewReached(startNodeIdArg)],
      startNodeIdArg).reached

findUpstreamNodes(g, startNodeIdArg) ==
  dfs(g, "up", [visited |-> NewVisited({}), reached |-> NewReached(startNodeIdArg)],
      startNodeIdArg).reached

(***************************************************************************)
(* RippleGraph({ files }): the effect that builds the graph, onNodeClick,   *)
(* clearSelection, onLayout.  A file is its name and the record parseFile  *)
(* gives for its content.                                                  *)
(***************************************************************************)
MaxRuns == 2

File(r) == [filename |-> r.filename, parsed |-> r]

FilesOf(rs) == [i \in 1..Len(rs) |-> File(rs[i])]

Readme == [filename |-> <<"r", "e", "a", "d", "m", "e", ".", "m", "d">>,
           parsed |-> Rec(<<"r", "e", "a", "d", "m", "e", ".", "m", "d">>, << >>, << >>, << >>)]

FileSets ==
  { FilesOf(ScenarioA), FilesOf(ScenarioC), FilesOf(ScenarioD),
    <<Readme>> \o FilesOf(ScenarioC), <<Readme>>, << >> }

\* extensions.some(ext => file.filename.toLowerCase().endsWith(ext))
isJavaScriptFile(filename) ==
  \E ext \in { <<".", "j", "s">>, <<".", "j", "s", "x">>, <<".", "t", "s">>,
               <<".", "t", "s", "x">>, <<".", "m", "j", "s">>, <<".", "c", "j", "s">> } :
    EndsWith(filename, ext)

RECURSIVE JsFiles(_)
JsFiles(fs) ==
  IF fs = << >> THEN << >>
  ELSE IF isJavaScriptFile(Head(fs).filename) THEN <<Head(fs)>> \o JsFiles(Tail(fs))
  ELSE JsFiles(Tail(fs))

\* parseFiles(files): the records of the JavaScript files, in order
RECURSIVE parseFiles(_)
parseFiles(fs) ==
  IF fs = << >> THEN << >>
  ELSE IF isJavaScriptFile(Head(fs).filename)
       THEN <<Head(fs).parsed>> \o parseFiles(Tail(fs))
       ELSE parseFiles(Tail(fs))

\* graphToReactFlow(graph): the ids of the nodes and the ends of the edges,
\* none of them dimmed
graphToReactFlow(g) ==
  [nodes |-> {[id |-> n, dimmed |-> FALSE] : n \in NodeIds(g)},
   edges |-> {[source |-> e[1], target |-> e[2], dimmed |-> FALSE] : e \in EdgePairs(g)}]

NoJsError == <<"No JavaScript/TypeScript files found in the uploaded project.">>
ParseError == <<"Failed to parse any files.">>
EmptyError == <<"No dependencies or functions found in the analyzed files.">>
BuildError == <<"Failed to build dependency graph">>

InitRipple ==
  /\ input = << >>
  /\ records = << >>
  /\ graph = EmptyGraph
  /\ fileMap = << >>
  /\ functionMap = << >>
  /\ idx = 1
  /\ pc = "mounted"
  /\ QueryIdle
  /\ ResolveIdle
  /\ FirstBuild
  /\ RippleIdle

\* the effect on [files, layoutDirection]: buildGraph up to `await parseFiles'
Effect(fs) ==
  IF fs = << >>
  THEN UNCHANGED <<runs, isLoading, error, progress>>
  ELSE IF JsFiles(fs) = << >>
       THEN /\ error' = NoJsError
            /\ isLoading' = FALSE
            /\ progress' = 0
            /\ UNCHANGED runs
       ELSE /\ Len(runs) < MaxRuns
            /\ runs' = Append(runs, JsFiles(fs))
            /\ isLoading' = TRUE
            /\ error' = Null
            /\ progress' = 20

\* the parent renders RippleGraph with other files
SetFiles ==
  /\ pc = "mounted"
  /\ \E fs \in FileSets \ {files} :
       /\ files' = fs
       /\ Effect(fs)
  /\ UNCHANGED <<graph, buildVars, queryVars, resolveVars, callVars, pc, layoutDirection,
                 held, nodes, edges, selectedNode, highlightedNodes>>

\* onLayout(direction): the nodes are laid out again (positions are not
\* modelled) and a change of layoutDirection runs the effect again
OnLayout ==
  /\ pc = "mounted"
  /\ \E d \in {"TB", "LR"} :
       /\ layoutDirection' = d
       /\ IF d # layoutDirection THEN Effect(files)
          ELSE UNCHANGED <<runs, isLoading, error, progress>>
  /\ UNCHANGED <<graph, buildVars, queryVars, resolveVars, callVars, pc, files,
                 held, nodes, edges, selectedNode, highlightedNodes>>

\* run i resumes after `await parseFiles' and runs to its end
Resume(i) ==
  LET parsedFiles == parseFiles(runs[i])
      dependencyGraph == GraphBuiltFrom(parsedFiles)
      flow == graphToReactFlow(dependencyGraph)
  IN  /\ runs' = Without(runs, i)
      /\ isLoading' = FALSE
      /\ progress' = 0
      /\ IF parsedFiles = << >>
         THEN error' = ParseError /\ UNCHANGED <<held, nodes, edges>>
         ELSE IF Throws(parsedFiles)
         THEN error' = BuildError /\ UNCHANGED <<held, nodes, edges>>
         ELSE IF Len(dependencyGraph.nodes) = 0
         THEN error' = EmptyError /\ UNCHANGED <<held, nodes, edges>>
         ELSE /\ held' = [loaded |-> TRUE, graph |-> dependencyGraph]
              /\ nodes' = flow.nodes
              /\ edges' = flow.edges
              /\ UNCHANGED error

ParseDone ==
  /\ pc = "mounted"
  /\ \E i \in 1..Len(runs) : Resume(i)
  /\ UNCHANGED <<graph, buildVars, queryVars, resolveVars, callVars, pc, files,
                 layoutDirection, selectedNode, highlightedNodes>>

\* the set without the upstream nodes
HighlightedDownOnly(g, id) == {id} \cup Range(findDownstreamNodes(g, id))

\* new Set([node.id, ...downstream, ...upstream])
Highlighted(g, id) ==
  {id} \cup Range(findDownstreamNodes(g, id)) \cup Range(findUpstreamNodes(g, id))

\* onNodeClick(event, node) with node.id = id
Click(id) ==
  IF ~held.loaded
  THEN UNCHANGED <<selectedNode, highlightedNodes, nodes, edges>>
  ELSE /\ selectedNode' = id
       /\ highlightedNodes' = Highlighted(held.graph, id)
       /\ nodes' = {[n EXCEPT !.dimmed = n.id \notin Highlighted(held.graph, id)] : n \in nodes}
       /\ edges' = {[e EXCEPT !.dimmed = ~(e.source \in Highlighted(held.graph, id)
                                             /\ e.target \in Highlighted(held.graph, id))] :
                      e \in edges}

\* a click on one of the nodes React Flow shows
OnNodeClick ==
  /\ pc = "mounted"
  /\ \E n \in nodes : Click(n.id)
  /\ UNCHANGED <<graph, buildVars, queryVars, resolveVars, callVars, pc, files,
                 layoutDirection, runs, held, isLoading, error, progress>>

\* clearSelection(), on a click on the pane or on the button
ClearSelection ==
  /\ pc = "mounted"
  /\ selectedNode' = Null
  /\ highlightedNodes' = {}
  /\ nodes' = {[n EXCEPT !.dimmed = FALSE] : n \in nodes}
  /\ edges' = {[e EXCEPT !.dimmed = FALSE] : e \in edges}
  /\ UNCHANGED <<graph, buildVars, queryVars, resolveVars, callVars, pc, files,
                 layoutDirection, runs, held, isLoading, error, progress>>

NextRipple ==
  \/ SetFiles
  \/ OnLayout
  \/ ParseDone
  \/ OnNodeClick
  \/ ClearSelection

SpecRipple == InitRipple /\ [][NextRipple]_vars

\* the nodes one edge away from the set S, forwards or backwards
Step(g, dir, S) ==
  {m \in NodeIds(g) : \E x \in S : IF dir = "down" THEN <<x, m>> \in EdgePairs(g)
                                    ELSE <<m, x>> \in EdgePairs(g)}

\* the least set that holds Step of S and of itself
RECURSIVE Closure(_, _, _)
Closure(g, dir, S) ==
  IF Step(g, dir, S) \subseteq S THEN S ELSE Closure(g, dir, S \cup Step(g, dir, S))

\* the nodes reachable from n by one edge or more
Ripple(g, dir, n) == Closure(g, dir, Step(g, dir, {n}))

\* a step of onNodeClick on the node n
ClickOn(n) ==
  /\ Click(n)
  /\ UNCHANGED <<files, layoutDirection, runs, held, isLoading, error, progress>>

\* C24: a click on node n of a loaded graph selects n and highlights n
\* with every node reachable from n forwards or backwards, and nothing
\* else; while no graph is loaded nothing is shown, selected or highlighted
\* and a click changes nothing
C24_ClickHighlightsRipple ==
  /\ [](~held.loaded => (nodes = {} /\ selectedNode = Null /\ highlightedNodes = {}))
  /\ [][\A n \in NodeIds(held.graph) \cup {FileId(PathA)} :
          ClickOn(n) =>
            IF held.loaded
            THEN /\ selectedNode' = n
                 /\ highlightedNodes' =
                      {n} \cup Ripple(held.graph, "down", n) \cup Ripple(held.graph, "up", n)
            ELSE UNCHANGED rippleVars]_vars

\* Scenario A is loaded and foo of a.js was clicked: foo, bar (called by
\* it) and a.js (which contains it) are highlighted
C24_Witness ==
  /\ held.loaded
  /\ held.graph = GraphBuiltFrom(ScenarioA)
  /\ selectedNode = FooOfA
  /\ highlightedNodes = {FooOfA, BarOfB, FileId(PathA)}
  /\ \E n \in nodes : n.id = FileId(PathB) /\ n.dimmed

\* the type of the payload of node n, "none" for a node without payload
KindOf(g, n) ==
  IF n \in NodeIds(g) /\ NodeLabel(g, n) # NoLabel THEN NodeLabel(g, n).type ELSE "none"

\* the ids the node pass creates for the input
NodePassIds ==
  {FileId(input[i].filename) : i \in 1..Len(input)}
    \cup UNION {{DeclaredId(i, j) : j \in 1..Len(input[i].functions)} : i \in 1..Len(input)}

\* C25: in the graph returned, the nodes are those of the node pass, each
\* with a payload of type file or function, and every edge joins two of
\* them of the kinds of its relation: contains file -> function, imports
\* file -> file, calls function -> function
C25_EdgesJoinTypedNodes ==
  pc = "done" =>
    /\ NodeIds(graph) = NodePassIds
    /\ \A n \in NodeIds(graph) : KindOf(graph, n) \in {"file", "function"}
    /\ \A e \in EdgePairs(graph) :
         <<EdgeLabel(graph, e[1], e[2]).type, KindOf(graph, e[1]), KindOf(graph, e[2])>>
           \in { <<"contains", "file", "function">>,
                 <<"imports", "file", "file">>,
                 <<"calls", "function", "function">> }

\* a graph with the three relations, built from an input with an import
\* that matches no file
C25_Witness ==
  /\ pc = "done"
  /\ \A t \in {"contains", "imports", "calls"} : EdgesOfType(graph, t) # {}
  /\ \E i \in 1..Len(input) : \E k \in 1..Len(input[i].imports) :
       input[i].imports[k].source = DotSlashMissing

\* the record call resolution takes the callee of call site k of record i
\* from: 0 when no record declares the name
ChosenRecord(i, k) ==
  LET name == input[i].functionCalls[k].name
      others == {r \in 1..Len(input) : Declaring(r, name) # {}}
  IN  IF Declaring(i, name) # {} THEN i
      ELSE IF others # {} THEN CHOOSE r \in others : \A r2 \in others : r <= r2
      ELSE 0

\* the entries of functionMap under a key `filename:name'
FileNameEntries == {i \in 1..Len(functionMap) : Includes(functionMap[i].key, Colon)}

\* C26: when the record chosen for a call declares the called name more
\* than once, the call resolves to the last of these declarations in the
\* order of the record and every calls edge for it ends there; functionMap
\* holds one entry for each file and name
C26_LastDeclarationWins ==
  pc = "done" =>
    /\ \A i \in 1..Len(input) : \A k \in 1..Len(input[i].functionCalls) :
         LET r == ChosenRecord(i, k)
             decls == IF r = 0 THEN {} ELSE Declaring(r, input[i].functionCalls[k].name)
         IN  Cardinality(decls) >= 2 =>
               /\ TargetOf(i, k) = DeclaredId(r, Greatest(decls))
               /\ \A j \in decls :
                    (DeclaredId(r, j) # DeclaredId(r, Greatest(decls))
                       /\ HasCaller(i, k)
                       /\ \A k2 \in 1..Len(input[i].functionCalls) :
                            input[i].functionCalls[k2].name = input[i].functionCalls[k].name) =>
                      <<CallerOf(i, k), DeclaredId(r, j)>> \notin EdgesOfType(graph, "calls")
    /\ \A a, b \in 1..Len(functionMap) :
         functionMap[a].key = functionMap[b].key => a = b
    /\ Cardinality(FileNameEntries) =
         Cardinality(UNION {{<<i, input[i].functions[j].name>> :
                               j \in 1..Len(input[i].functions)} : i \in 1..Len(input)})

\* b.js declares foo at lines 1 and 10 (and bar), a.js calls foo and
\* declares none: the calls edge ends at the foo of line 10
C26_Witness ==
  /\ pc = "done"
  /\ input = << Rec(PathA, <<Fn(Bar, 1)>>, << >>, <<Call(Foo, 2)>>),
                Rec(PathB, <<Fn(Foo, 1), Fn(Foo, 10), Fn(Bar, 20)>>, << >>,
                    <<Call(Foo, 25)>>) >>
  /\ EdgesOfType(graph, "calls") =
       { <<FunctionId(PathA, Fn(Bar, 1), 0), FunctionId(PathB, Fn(Foo, 10), 1)>>,
         <<FunctionId(PathB, Fn(Bar, 20), 2), FunctionId(PathB, Fn(Foo, 10), 1)>> }

\* the orders in which the paths of ps can be listed
Orders(ps) == {qs \in [1..Len(ps) -> Range(ps)] : Range(qs) = Range(ps)}

\* the paths of qs that match the bare specifier
MatchesIn(qs) ==
  {i \in 1..Len(qs) :
     \/ HasSubstring(qs[i], specifier)
     \/ HasSuffix(qs[i], <<"/">> \o specifier \o <<".", "j", "s">>)
     \/ HasSuffix(qs[i], <<"/">> \o specifier \o <<".", "t", "s">>)
     \/ HasSuffix(qs[i], <<"/">> \o specifier \o <<"/", "i", "n", "d", "e", "x", ".", "j", "s">>)
     \/ HasSuffix(qs[i], <<"/">> \o specifier \o <<"/", "i", "n", "d", "e", "x", ".", "t", "s">>)}

\* C27: for a relative specifier every order of the same paths gives the
\* result that was returned; for a bare specifier each order gives the
\* first path of that order that matches
C27_OrderOnlyForBare ==
  pc = "resolved" =>
    \A qs \in Orders(allPaths) :
      IF RelativeCase
      THEN resolveImportPath(specifier, sourcePath, qs) = returnValue
      ELSE MatchesIn(qs) # {} =>
             resolveImportPath(specifier, sourcePath, qs) = qs[Least(MatchesIn(qs))]

\* ./b from a.js with b.ts listed before b.js: b.js was returned
C27_Witness ==
  /\ pc = "resolved"
  /\ specifier = DotSlashB
  /\ sourcePath = PathA
  /\ allPaths = << <<"b", ".", "t", "s">>, PathB >>
  /\ returnValue = PathB

\* import k of record i is bare
BareImport(i, k) ==
  LET sp == input[i].imports[k].source
  IN  ~(Len(sp) >= 2 /\ sp[1] = "." /\ (sp[2] = "/" \/ (Len(sp) >= 3 /\ sp[2] = "." /\ sp[3] = "/")))

\* the records whose filename matches the specifier of import k of record i
MatchingRecords(i, k) ==
  {r \in 1..Len(input) : HasSubstring(input[r].filename, input[i].imports[k].source)}

\* C28: a bare import whose first matching path, in the order of the
\* input, is the importing file adds no edge, also when a later path
\* matches: the graph is that of the input without the import; when the
\* first matching path is another file the edge goes to that file
C28_SelfMatchNotRetried ==
  pc = "done" =>
    \A i \in 1..Len(input) : \A k \in 1..Len(input[i].imports) :
      (BareImport(i, k) /\ MatchingRecords(i, k) # {}) =>
        IF Least(MatchingRecords(i, k)) = i
        THEN SameNodesAndEdges(graph,
               GraphBuiltFrom([input EXCEPT ![i].imports = Without(@, k)]))
        ELSE <<FileId(input[i].filename),
               FileId(input[Least(MatchingRecords(i, k))].filename)>>
               \in EdgesOfType(graph, "imports")

\* a.js, first in the input, imports js; a.js and b.js both match, and
\* there is no imports edge
C28_Witness ==
  /\ pc = "done"
  /\ Len(input) = 2
  /\ input[1] = Rec(PathA, << >>, <<Imp(<<"j", "s">>, "import")>>, << >>)
  /\ input[2].filename = PathB
  /\ MatchingRecords(1, 1) = {1, 2}
  /\ EdgesOfType(graph, "imports") = {}

\* C29, as stated: once no run of buildGraph is pending, the graph, the
\* nodes and the edges in state are those built from the files the
\* component was last given
C29_LatestFilesWin ==
  (runs = << >> /\ JsFiles(files) # << >>) =>
    /\ held = [loaded |-> TRUE, graph |-> GraphBuiltFrom(parseFiles(files))]
    /\ {n.id : n \in nodes} = NodeIds(GraphBuiltFrom(parseFiles(files)))
    /\ {<<e.source, e.target>> : e \in edges} = EdgePairs(GraphBuiltFrom(parseFiles(files)))

\* C30, as stated: the node selected, when there is one, and every node
\* highlighted is a node of the graph in state
C30_SelectionInGraph ==
  /\ selectedNode # Null => selectedNode \in NodeIds(held.graph)
  /\ highlightedNodes \subseteq NodeIds(held.graph)

====
